---- MODULE Spec2Model ----
(***************************************************************************)
(* Model of the validation and job-dispatch core of ganeti_webmgr:         *)
(*   - ganeti/forms/virtual_machine.py : VM creation / modification forms  *)
(*     (field cleaning, NewVirtualMachineForm.clean, check_quota_modify)   *)
(*   - ganeti_web/views/node.py        : node role / migrate / evacuate    *)
(*                                                                         *)
(* Three specifications share the module:                                  *)
(*   SpecForm  : one creation request is filled in and validated           *)
(*   SpecQuota : concurrent requests of one owner on one cluster           *)
(*   SpecNode  : node operation requests                                   *)
(***************************************************************************)
EXTENDS Integers, Sequences, FiniteSets, TLC

VARIABLES
    req,      \* creation request: raw POST values and the context they meet
    fpc,      \* "editing" while the request is filled in, "done" once validated
    data,     \* form.cleaned_data : field name -> cleaned value (partial map)
    errors,   \* form._errors      : key -> message (partial map)
    ran,      \* the stages of validation that were evaluated
    nreq,     \* node view request: user, method, POST values, job service outcome
    nresp,    \* node view response and what the view did at the job service
    used,     \* owner.used_resources(cluster) as committed in the repository
    vm,       \* the owner's virtual machine that modification requests edit
    quota,    \* cluster.get_quota(owner)
    qpc,      \* per concurrent request: its position
    qreq,     \* per concurrent request: what was posted
    qsnap,    \* per concurrent request: the used resources and vm its check read
    qerr      \* per concurrent request: the errors of its latest check

formVars == <<req, fpc, data, errors, ran>>
nodeVars == <<nreq, nresp>>
quotaVars == <<used, vm, quota, qpc, qreq, qsnap, qerr>>
vars == <<formVars, nodeVars, quotaVars>>

(***************************************************************************)
(* Partial maps (python dicts).                                            *)
(***************************************************************************)
EmptyMap == [k \in {} |-> TRUE]
Has(m, k) == k \in DOMAIN m
Get(m, k, d) == IF k \in DOMAIN m THEN m[k] ELSE d
Put(m, k, v) == [x \in (DOMAIN m) \cup {k} |-> IF x = k THEN v ELSE m[x]]
Del(m, k) == [x \in (DOMAIN m) \ {k} |-> m[x]]

\* python None where a cleaned value is a string-typed cell
None == "None"

(***************************************************************************)
(* Bounds of the model.                                                    *)
(***************************************************************************)
\* number of request/context cells that may differ from the baseline request
MaxDeviations == 3

(***************************************************************************)
(* ganeti.constants (choice lists; contains() looks a value up in them).   *)
(***************************************************************************)
KVM_DISK_TYPES == {"scsi", "sd"}
HVM_DISK_TYPES == {"ioemu"}
HV_DISK_TYPES == {"paravirtual", "ide"}
KVM_NIC_TYPES == {"e1000", "rtl8139"}
HV_NIC_TYPES == {"paravirtual"}
KVM_BOOT_ORDER == {"disk", "cdrom", "network"}
HVM_BOOT_ORDER == {"cd", "a", "c", "d", "n"}
HV_DISK_TEMPLATES == {"plain", "drbd", "file", "diskless"}

contains(e, t) == e \in t

(***************************************************************************)
(* Repository content met by the request: one cluster "c1" with two nodes, *)
(* four cluster users, one virtual machine "db1.example.com" on c1.        *)
(***************************************************************************)
Clusters == {"c1"}
ClusterNodes == {"n1", "n2"}
ClusterHypervisors == {"kvm", "xen-hvm", "xen-pvm"}
\* ClusterUser rows: profiles of the acting user and of another user, an
\* organization the acting user belongs to, and one the user does not
ClusterUsers == {"u_self", "u_other", "g_in", "g_out"}
IsOrganization(o) == o \in {"g_in", "g_out"}
UserIsMember(o) == o = "g_in"
OwnerIsUser(o) == o = "u_self"
ExistingVmHost == "db1.example.com"

\* a cell holding a number or python None (vcpus, whose cleaner may return
\* None, and the limits of a quota)
NoInt == [isNone |-> TRUE, v |-> 0]
SomeInt(n) == [isNone |-> FALSE, v |-> n]

\* cluster.get_quota(owner): every resource is either None or a limit
NoLimit == NoInt
Limit(n) == SomeInt(n)

\* owner.used_resources(cluster, only_running=True) seen by the creation form
FormUsed == [ram |-> 3000, disk |-> 6000, virtual_cpus |-> 3]

(***************************************************************************)
(* The request: raw POST values (strings, checkboxes) and context.         *)
(***************************************************************************)
ReqDomain == [
    superuser    |-> BOOLEAN,
    listed       |-> BOOLEAN,                       \* cluster in get_objects_any_perms
    perm         |-> {"none", "create_vm", "admin"},\* has_perm of the owner on c1
    defaultHv    |-> ClusterHypervisors,            \* cluster default hypervisor
    quotaRam     |-> {NoLimit, Limit(0), Limit(4096)},
    quotaDisk    |-> {NoLimit, Limit(0), Limit(10000)},
    quotaVcpus   |-> {NoLimit, Limit(4)},
    vmPending    |-> BOOLEAN,                       \* existing vm.pending_delete
    vmTemplate   |-> BOOLEAN,                       \* existing vm.template is not None
    vmOwner      |-> {"u_self", "u_other"},         \* existing vm.owner
    owner        |-> {""} \cup ClusterUsers,
    cluster      |-> {"", "c1"},
    hostname     |-> {"web1.example.com", ExistingVmHost, "bad host"},
    start        |-> BOOLEAN,
    memory       |-> {"", "512", "2000"},
    vcpus        |-> {"", "0", "1", "4"},
    disk_template|-> {"plain", "drbd", "diskless"},
    disk_size    |-> {"", "0", "-5", "1000", "8000"},
    pnode        |-> {"", "n1", "n2"},
    snode        |-> {"", "n1", "n2"},
    iallocator   |-> BOOLEAN,
    iallocator_hostname |-> {"", "hail"},
    boot_order   |-> {"disk", "cdrom", "cd"},
    cdrom_image_path |-> {"", "/iso/cd.iso"},
    hypervisor   |-> {"", "kvm", "xen-hvm", "xen-pvm"},
    disk_type    |-> {"paravirtual", "scsi", "ioemu", "floppy"},
    nic_type     |-> {"paravirtual", "e1000", "ne2k"}
]

ReqCells == DOMAIN ReqDomain

\* a request that validation accepts: the spec's end-to-end cluster
\* (ram quota 4096, 3000 used) with a small machine
BaseReq == [
    superuser    |-> FALSE,
    listed       |-> TRUE,
    perm         |-> "create_vm",
    defaultHv    |-> "kvm",
    quotaRam     |-> Limit(4096),
    quotaDisk    |-> Limit(10000),
    quotaVcpus   |-> Limit(4),
    vmPending    |-> FALSE,
    vmTemplate   |-> TRUE,
    vmOwner      |-> "u_self",
    owner        |-> "u_self",
    cluster      |-> "c1",
    hostname     |-> "web1.example.com",
    start        |-> TRUE,
    memory       |-> "512",
    vcpus        |-> "1",
    disk_template|-> "plain",
    disk_size    |-> "1000",
    pnode        |-> "n1",
    snode        |-> "n2",
    iallocator   |-> FALSE,
    iallocator_hostname |-> "",
    boot_order   |-> "disk",
    cdrom_image_path |-> "",
    hypervisor   |-> "kvm",
    disk_type    |-> "paravirtual",
    nic_type     |-> "paravirtual"
]

Deviations(r) == Cardinality({c \in ReqCells : r[c] # BaseReq[c]})

(***************************************************************************)
(* Form construction: NewVirtualMachineForm.__init__                       *)
(***************************************************************************)
\* Cluster.objects.get(pk=initial['cluster'])
ClusterFound(r) == r.cluster \in Clusters

\* self.owner = ClusterUser.objects.get(pk=initial['owner']).cast(), or None
SelfOwner(r) == IF r.owner \in ClusterUsers THEN r.owner ELSE None

pvm_exclude_fields ==
    {"disk_type", "nic_type", "boot_order", "serial_console", "cdrom_image_path"}

\* the order in which the fields are cleaned; hostname is declared by the
\* form only and so follows the model's fields (cluster among them)
FieldOrder == <<"owner", "cluster", "hypervisor", "start", "iallocator",
    "iallocator_hostname", "disk_template", "pnode", "snode", "disk_size",
    "disk_type", "nic_type", "boot_order", "cdrom_image_path", "memory",
    "vcpus", "hostname">>

AllFields == {FieldOrder[i] : i \in 1..Len(FieldOrder)}

\* self.fields after __init__: a xen-pvm cluster drops the pvm_exclude_fields
FormFields(r) ==
    IF ClusterFound(r) /\ r.defaultHv = "xen-pvm"
    THEN AllFields \ pvm_exclude_fields
    ELSE AllFields

\* cluster_default_info(cluster): the choice lists of the cluster's default
\* hypervisor (hypervisor-specific values and the generic ones)
DefaultDiskTypes(hv) ==
    IF hv = "kvm" THEN KVM_DISK_TYPES \cup HV_DISK_TYPES
    ELSE IF hv = "xen-hvm" THEN HVM_DISK_TYPES \cup HV_DISK_TYPES
    ELSE {}
DefaultNicTypes(hv) ==
    IF hv = "kvm" THEN KVM_NIC_TYPES \cup HV_NIC_TYPES
    ELSE IF hv = "xen-hvm" THEN HV_NIC_TYPES
    ELSE {}
DefaultBootDevices(hv) ==
    IF hv = "kvm" THEN KVM_BOOT_ORDER
    ELSE IF hv = "xen-hvm" THEN HVM_BOOT_ORDER
    ELSE {}

\* fields[...].choices; without a cluster only the empty choice is offered
NodeChoices(r) == IF ClusterFound(r) THEN ClusterNodes ELSE {}
HypervisorChoices(r) == IF ClusterFound(r) THEN ClusterHypervisors ELSE {}
DiskTypeChoices(r) == IF ClusterFound(r) THEN DefaultDiskTypes(r.defaultHv) ELSE {}
NicTypeChoices(r) == IF ClusterFound(r) THEN DefaultNicTypes(r.defaultHv) ELSE {}
BootOrderChoices(r) == IF ClusterFound(r) THEN DefaultBootDevices(r.defaultHv) ELSE {}

\* fields['cluster'].queryset
ClusterQueryset(r) ==
    IF r.superuser THEN Clusters
    ELSE IF r.listed THEN Clusters ELSE {}

(***************************************************************************)
(* Field cleaning (form._clean_fields): each field parses its raw value;   *)
(* a rejected value leaves an error under the field's name and no entry in *)
(* cleaned_data.                                                           *)
(***************************************************************************)
FQDN_RE(s) == s \in {"web1.example.com", ExistingVmHost}

\* text -> number, as typed in the form
Numerals == [s \in {"-5", "0", "1", "2", "4", "512", "1000", "2000", "8000"} |->
    CASE s = "-5" -> 0 - 5
      [] s = "0" -> 0
      [] s = "1" -> 1
      [] s = "2" -> 2
      [] s = "4" -> 4
      [] s = "512" -> 512
      [] s = "1000" -> 1000
      [] s = "2000" -> 2000
      [] s = "8000" -> 8000]

Accept(v) == [ok |-> TRUE, v |-> v, msg |-> ""]
Reject(m) == [ok |-> FALSE, v |-> None, msg |-> m]

\* DataVolumeField(min_value=...): required, a number not below min_value
DataVolumeField(raw, min_value) ==
    IF raw = "" THEN Reject("required")
    ELSE IF raw \notin DOMAIN Numerals THEN Reject("invalid")
    ELSE IF Numerals[raw] < min_value THEN Reject("min_value")
    ELSE Accept(Numerals[raw])

\* forms.ChoiceField(choices=...)
ChoiceField(raw, choices, required) ==
    IF raw = "" THEN (IF required THEN Reject("required") ELSE Accept(""))
    ELSE IF raw \in choices THEN Accept(raw)
    ELSE Reject("invalid_choice")

\* memory = DataVolumeField(label=_('Memory'), min_value=100)
memory_field(raw) == DataVolumeField(raw, 100)

\* mutant: the disk_size field declared without its min_value
disk_size_field_NoMin(raw) == DataVolumeField(raw, 0 - 100000)

\* disk_size = DataVolumeField(label=_('Disk Size'), min_value=100)
disk_size_field(raw) == DataVolumeField(raw, 100)

\* the field named f applied to the request's raw value
FieldClean(r, f) ==
    CASE f = "owner" ->
            IF r.owner \in ClusterUsers THEN Accept(r.owner) ELSE Reject("required")
      [] f = "cluster" ->
            IF r.cluster = "" THEN Reject("required")
            ELSE IF r.cluster \in ClusterQueryset(r) THEN Accept(r.cluster)
            ELSE Reject("invalid_choice")
      [] f = "hypervisor" -> ChoiceField(r.hypervisor, HypervisorChoices(r), FALSE)
      [] f = "start" -> Accept(r.start)
      [] f = "iallocator" -> Accept(r.iallocator)
      [] f = "iallocator_hostname" -> Accept(r.iallocator_hostname)
      [] f = "disk_template" -> ChoiceField(r.disk_template, HV_DISK_TEMPLATES, TRUE)
      [] f = "pnode" -> ChoiceField(r.pnode, NodeChoices(r), TRUE)
      [] f = "snode" -> ChoiceField(r.snode, NodeChoices(r), TRUE)
      [] f = "disk_size" -> disk_size_field(r.disk_size)
      [] f = "disk_type" -> ChoiceField(r.disk_type, DiskTypeChoices(r), TRUE)
      [] f = "nic_type" -> ChoiceField(r.nic_type, NicTypeChoices(r), TRUE)
      [] f = "boot_order" -> ChoiceField(r.boot_order, BootOrderChoices(r), TRUE)
      [] f = "cdrom_image_path" -> Accept(r.cdrom_image_path)
      [] f = "memory" -> memory_field(r.memory)
      [] f = "vcpus" ->
            IF r.vcpus = "" THEN Accept(NoInt) ELSE Accept(SomeInt(Numerals[r.vcpus]))
      [] f = "hostname" ->
            IF r.hostname = "" THEN Reject("required")
            ELSE IF FQDN_RE(r.hostname) THEN Accept(r.hostname)
            ELSE Reject("invalid")

\* VirtualMachine.objects.get(cluster=cluster, hostname=hostname) finds a row
VmExists(cluster, hostname) == cluster = "c1" /\ hostname = ExistingVmHost

\* mutant: a failed deployment detected by "vm.template is None"
clean_hostname_TemplateNone(r, s) ==
    LET hostname == Get(s.data, "hostname", "")
        cluster == Get(s.data, "cluster", "")
    IN  IF hostname # "" /\ cluster # "" /\ VmExists(cluster, hostname)
        THEN IF ~r.vmPending /\ ~r.vmTemplate
             THEN IF r.vmOwner = SelfOwner(r)
                  THEN [s EXCEPT !.data = Put(@, "vm_recovery", "vm1")]
                  ELSE [s EXCEPT !.errors = Put(@, "owner", "recovery_owner")]
             ELSE [data |-> Del(s.data, "hostname"),
                   errors |-> Put(s.errors, "hostname", "in_use")]
        ELSE s

\* VirtualMachineForm.clean_hostname; s = [data, errors]
clean_hostname(r, s) ==
    LET hostname == Get(s.data, "hostname", "")
        cluster == Get(s.data, "cluster", "")
    IN  IF hostname # "" /\ cluster # "" /\ VmExists(cluster, hostname)
        THEN IF ~r.vmPending /\ r.vmTemplate
             THEN IF r.vmOwner = SelfOwner(r)
                  THEN [s EXCEPT !.data = Put(@, "vm_recovery", "vm1")]
                  ELSE [s EXCEPT !.errors = Put(@, "owner", "recovery_owner")]
             ELSE [data |-> Del(s.data, "hostname"),
                   errors |-> Put(s.errors, "hostname", "in_use")]
        ELSE s

\* VirtualMachineForm.clean_vcpus; the returned value becomes the cleaned one
clean_vcpus(s) ==
    LET vcpus == Get(s.data, "vcpus", NoInt)
    IN  IF vcpus.isNone \/ vcpus.v < 1
        THEN [data |-> Put(s.data, "vcpus", NoInt),
              errors |-> Put(s.errors, "vcpus", "one_cpu")]
        ELSE s

\* one field of _clean_fields: field.clean, then the form's clean_<name>
CleanOneField(r, s, f) ==
    LET res == FieldClean(r, f)
    IN  IF ~res.ok
        THEN [data |-> Del(s.data, f), errors |-> Put(s.errors, f, res.msg)]
        ELSE LET s1 == [s EXCEPT !.data = Put(@, f, res.v)]
             IN  CASE f = "hostname" -> clean_hostname(r, s1)
                   [] f = "vcpus" -> clean_vcpus(s1)
                   [] OTHER -> s1

RECURSIVE CleanFieldsFrom(_, _, _)
CleanFieldsFrom(r, s, i) ==
    IF i > Len(FieldOrder) THEN s
    ELSE IF FieldOrder[i] \in FormFields(r)
         THEN CleanFieldsFrom(r, CleanOneField(r, s, FieldOrder[i]), i + 1)
         ELSE CleanFieldsFrom(r, s, i + 1)

\* form._clean_fields()
CleanFields(r) == CleanFieldsFrom(r, [data |-> EmptyMap, errors |-> EmptyMap], 1)

(***************************************************************************)
(* NewVirtualMachineForm.clean; s = [data, errors, ran]                    *)
(***************************************************************************)
\* "if we are on any disk template but diskless, our disk_size is set and
\* greater than zero"
DiskSizeCheck(s) ==
    IF Get(s.data, "disk_template", None) # "diskless"
       /\ (~Has(s.data, "disk_size") \/ s.data["disk_size"] = 0)
    THEN [s EXCEPT !.errors = Put(@, "disk_size", "disk_size_unset")]
    ELSE s

\* mutant: matching nodes reported, snode left in the cleaned data
PairCheck_KeepSnode(s) ==
    LET pnode == Get(s.data, "pnode", "")
        snode == Get(s.data, "snode", "")
        iallocator == Get(s.data, "iallocator", FALSE)
        disk_template == Get(s.data, "disk_template", None)
    IN  IF disk_template = "drbd" /\ ~iallocator
        THEN IF pnode = snode /\ (pnode # "" \/ snode # "")
             THEN [s EXCEPT !.errors = Put(@, "pnode", "nodes_match"),
                            !.data = Del(@, "pnode")]
             ELSE s
        ELSE [s EXCEPT !.errors = Del(@, "snode")]

\* "Need to have pnode != snode"
PairCheck(s) ==
    LET pnode == Get(s.data, "pnode", "")
        snode == Get(s.data, "snode", "")
        iallocator == Get(s.data, "iallocator", FALSE)
        disk_template == Get(s.data, "disk_template", None)
    IN  IF disk_template = "drbd" /\ ~iallocator
        THEN IF pnode = snode /\ (pnode # "" \/ snode # "")
             THEN [s EXCEPT !.errors = Put(@, "pnode", "nodes_match"),
                            !.data = Del(Del(@, "pnode"), "snode")]
             ELSE s
        ELSE [s EXCEPT !.errors = Del(@, "snode")]

\* mutant: the image path dropped from the cleaned data, no error recorded
CdromCheck_NoError(s) ==
    LET boot_order == Get(s.data, "boot_order", "")
        image_path == Get(s.data, "cdrom_image_path", "")
    IN  IF boot_order = "cdrom" /\ image_path = ""
        THEN [s EXCEPT !.data = Del(@, "cdrom_image_path")]
        ELSE s

\* "If boot_order = CD-ROM make sure imagepath is set as well."
CdromCheck(s) ==
    LET boot_order == Get(s.data, "boot_order", "")
        image_path == Get(s.data, "cdrom_image_path", "")
    IN  IF boot_order = "cdrom" /\ image_path = ""
        THEN [s EXCEPT !.errors = Put(@, "cdrom_image_path", "image_required"),
                       !.data = Del(@, "cdrom_image_path")]
        ELSE s

\* mutant: the node errors left in place under automatic allocation
IallocatorCheck_KeepErrors(s) ==
    LET iallocator == Get(s.data, "iallocator", FALSE)
        iallocator_hostname == Get(s.data, "iallocator_hostname", "")
    IN  IF iallocator /\ iallocator_hostname = ""
        THEN [s EXCEPT !.errors = Put(@, "iallocator", "no_iallocator")]
        ELSE s

\* "If iallocator is checked, don't display error messages for nodes"
IallocatorCheck(s) ==
    LET iallocator == Get(s.data, "iallocator", FALSE)
        iallocator_hostname == Get(s.data, "iallocator_hostname", "")
    IN  IF iallocator
        THEN IF iallocator_hostname # ""
             THEN [s EXCEPT !.errors = Del(Del(@, "pnode"), "snode")]
             ELSE [s EXCEPT !.errors = Put(@, "iallocator", "no_iallocator")]
        ELSE s

\* the node / boot device / allocator block, which clean holds twice
NodeChecks(s) == IallocatorCheck(CdromCheck(PairCheck(s)))

\* mutant: a check that counts what other validated requests were granted
QuotaCreate_Reserving(s, q, u) ==
    LET start == s.data["start"]
        granted == Cardinality({r \in DOMAIN qpc : qpc[r] = "valid"})
        ramOver == start /\ ~q.ram.isNone
                   /\ u.ram + granted * 1000 + s.data["memory"] > q.ram.v
    IN  IF ramOver
        THEN [s EXCEPT !.data = Del(@, "memory"),
                       !.errors = Put(@, "ram", "quota_ram")]
        ELSE s

\* the creation quota check: "check quota" in clean
QuotaCreate(s, q, u) ==
    LET start == s.data["start"]
        ramOver == start /\ ~q.ram.isNone
                   /\ u.ram + s.data["memory"] > q.ram.v
        s1 == IF ramOver
              THEN [s EXCEPT !.data = Del(@, "memory"),
                             !.errors = Put(@, "ram", "quota_ram")]
              ELSE s
        diskOver == ~q.disk.isNone /\ q.disk.v # 0
                    /\ u.disk + s1.data["disk_size"] > q.disk.v
        s2 == IF diskOver
              THEN [s1 EXCEPT !.data = Del(@, "disk_size"),
                              !.errors = Put(@, "disk_size", "quota_disk")]
              ELSE s1
        cpuOver == start /\ ~q.virtual_cpus.isNone
                   /\ u.virtual_cpus + s2.data["vcpus"].v > q.virtual_cpus.v
    IN  IF cpuOver
        THEN [s2 EXCEPT !.data = Del(@, "vcpus"),
                        !.errors = Put(@, "vcpus", "quota_vcpus")]
        ELSE s2

\* mutant: group membership of the acting user not looked at
MembershipMsg_NoGroupCheck(owner) ==
    IF IsOrganization(owner)
    THEN ""
    ELSE IF ~OwnerIsUser(owner) THEN "not_on_behalf" ELSE ""

\* "check user membership in group if group", else ownership of the profile
MembershipMsg(owner) ==
    IF IsOrganization(owner)
    THEN IF ~UserIsMember(owner) THEN "not_member" ELSE ""
    ELSE IF ~OwnerIsUser(owner) THEN "not_on_behalf" ELSE ""

\* "check permissions on cluster": owner.has_perm('create_vm', cluster) or
\* owner.has_perm('admin', cluster)
OwnerHasPerm(r) == r.perm = "create_vm" \/ r.perm = "admin"

\* the owner / permission / quota part of clean ("database stuff")
AuthAndQuota(r, s, u) ==
    LET owner == SelfOwner(r)
        sg == IF owner # None
              THEN [s EXCEPT !.data = Put(@, "grantee",
                        IF IsOrganization(owner) THEN "group" ELSE "user")]
              ELSE s
    IN  IF ~r.superuser /\ owner # None
        THEN LET msg1 == MembershipMsg(owner)
                 inCluster == Has(sg.data, "cluster")
                 msg == IF inCluster /\ ~OwnerHasPerm(r) THEN "no_perms" ELSE msg1
                 q == [ram |-> r.quotaRam, disk |-> r.quotaDisk,
                           virtual_cpus |-> r.quotaVcpus]
                 sq == IF inCluster
                       THEN [QuotaCreate(sg, q, u)
                                EXCEPT !.ran = @ \cup {"quota"}]
                       ELSE sg
                 sa == [sq EXCEPT !.ran = @ \cup {"auth"}]
             IN  IF msg # ""
                 THEN [sa EXCEPT !.errors = Put(@, "owner", msg),
                                 !.data = Del(@, "owner")]
                 ELSE sa
        ELSE sg

\* mutant: the disk_type check made for xen-hvm only
DiskTypeCheck_HvmOnly(s) ==
    LET hv == Get(s.data, "hypervisor", None)
        disk_type == Get(s.data, "disk_type", None)
    IN  IF hv = "xen-hvm" /\ ~(contains(disk_type, HVM_DISK_TYPES)
                                \/ contains(disk_type, HV_DISK_TYPES))
        THEN [s EXCEPT !.errors = Put(@, "disk_type", "bad_disk_type")]
        ELSE s

\* "Check disk_type"
DiskTypeCheck(s) ==
    LET hv == Get(s.data, "hypervisor", None)
        disk_type == Get(s.data, "disk_type", None)
    IN  IF (hv = "kvm" /\ ~(contains(disk_type, KVM_DISK_TYPES)
                             \/ contains(disk_type, HV_DISK_TYPES)))
           \/ (hv = "xen-hvm" /\ ~(contains(disk_type, HVM_DISK_TYPES)
                                   \/ contains(disk_type, HV_DISK_TYPES)))
        THEN [s EXCEPT !.errors = Put(@, "disk_type", "bad_disk_type")]
        ELSE s

\* "Check nic_type"
NicTypeCheck(s) ==
    LET hv == Get(s.data, "hypervisor", None)
        nic_type == Get(s.data, "nic_type", None)
    IN  IF (hv = "kvm" /\ ~(contains(nic_type, KVM_NIC_TYPES)
                             \/ contains(nic_type, HV_NIC_TYPES)))
           \/ (hv = "xen-hvm" /\ ~contains(nic_type, HV_NIC_TYPES))
        THEN [s EXCEPT !.errors = Put(@, "nic_type", "bad_nic_type")]
        ELSE s

\* "Check boot_order"
BootOrderCheck(s) ==
    LET hv == Get(s.data, "hypervisor", None)
        boot_order == Get(s.data, "boot_order", "")
    IN  IF (hv = "kvm" /\ ~contains(boot_order, KVM_BOOT_ORDER))
           \/ (hv = "xen-hvm" /\ ~contains(boot_order, HVM_BOOT_ORDER))
        THEN [s EXCEPT !.errors = Put(@, "boot_order", "bad_boot_order")]
        ELSE s

\* "Check options which depend on the the hypervisor type"
CapabilityChecks(s) == BootOrderCheck(NicTypeCheck(DiskTypeCheck(s)))

\* mutant: the capability checks made before owner, permissions and quota,
\* which then run only without errors
clean_CapabilityFirst(r, s0, u) ==
    LET s1 == [NodeChecks(DiskSizeCheck(s0)) EXCEPT !.ran = @ \cup {"cross"}]
    IN  IF DOMAIN s1.errors # {}
        THEN s1
        ELSE LET s2 == [CapabilityChecks(s1) EXCEPT !.ran = @ \cup {"capability"}]
             IN  IF DOMAIN s2.errors # {}
                 THEN s2
                 ELSE [NodeChecks(AuthAndQuota(r, s2, u))
                          EXCEPT !.ran = @ \cup {"cross2"}]

\* NewVirtualMachineForm.clean
clean(r, s0, u) ==
    LET s1 == [NodeChecks(DiskSizeCheck(s0)) EXCEPT !.ran = @ \cup {"cross"}]
    IN  IF DOMAIN s1.errors # {}
        THEN s1                                  \* "If there are any errors, exit early."
        ELSE LET s2 == AuthAndQuota(r, s1, u)
                 s3 == [NodeChecks(s2) EXCEPT !.ran = @ \cup {"cross2"}]
             IN  [CapabilityChecks(s3) EXCEPT !.ran = @ \cup {"capability"}]

\* form.is_valid(): full_clean = _clean_fields then clean
full_clean(r, u) ==
    LET f == CleanFields(r)
    IN  clean(r, [data |-> f.data, errors |-> f.errors, ran |-> {"fields"}], u)


\* the creation form before a request is validated
FormIdle ==
    /\ req = BaseReq
    /\ fpc = "editing"
    /\ data = EmptyMap
    /\ errors = EmptyMap
    /\ ran = {}

(***************************************************************************)
(* ganeti_web/views/node.py: role, migrate and evacuate views.             *)
(***************************************************************************)
\* ganeti_web.constants
ROLE_CHOICES == {"master-candidate", "regular", "drained", "offline"}
MODE_CHOICES == {"live", "non-live"}

\* the node the views act on, and cluster.nodes.exclude(pk=node.pk)
ThisNode == "n1"
OtherNodes == ClusterNodes \ {ThisNode}

NoNodeReq == [view |-> "none", method |-> "GET", superuser |-> FALSE,
              perms |-> {}, role |-> "", mode |-> "", iallocator |-> FALSE,
              iallocator_hostname |-> "", node |-> "",
              submit |-> "ok", refresh |-> "ok"]
NoNodeResp == [kind |-> "none", errors |-> EmptyMap, submitted |-> <<>>,
               refreshed |-> 0, logged |-> FALSE]

NodeIdle == nreq = NoNodeReq /\ nresp = NoNodeResp

\* mutant: the node views gated on admin alone
NodePermitted_AdminOnly(q) == q.superuser \/ "admin" \in q.perms

\* user.is_superuser or user.has_any_perms(cluster, ['admin','migrate'])
NodePermitted(q) == q.superuser \/ (q.perms \cap {"admin", "migrate"}) # {}

\* render_403(request, "You do not have sufficient privileges")
Render403 == [NoNodeResp EXCEPT !.kind = "403"]
\* render_to_response(<form page>)
RenderPage == [NoNodeResp EXCEPT !.kind = "page"]
\* HttpResponse(json.dumps(form.errors))
FormErrors(e) == [NoNodeResp EXCEPT !.kind = "errors", !.errors = e]

\* mutant: a failed submit tried a second time
SubmitAndRefresh_Retry(q, op) ==
    IF q.submit = "error"
    THEN [NoNodeResp EXCEPT !.kind = "errors",
                            !.errors = Put(EmptyMap, "__all__", <<"api_error">>),
                            !.submitted = <<op, op>>]
    ELSE IF q.refresh = "error"
    THEN [NoNodeResp EXCEPT !.kind = "errors",
                            !.errors = Put(EmptyMap, "__all__", <<"api_error">>),
                            !.submitted = <<op>>, !.refreshed = 1]
    ELSE [NoNodeResp EXCEPT !.kind = "job", !.submitted = <<op>>,
                            !.refreshed = 1, !.logged = TRUE]

\* the try block of the three views: submit the job, refresh it once, log,
\* answer with job.info; GanetiApiError from either call becomes one entry
\* under __all__
SubmitAndRefresh(q, op) ==
    IF q.submit = "error"
    THEN [NoNodeResp EXCEPT !.kind = "errors",
                            !.errors = Put(EmptyMap, "__all__", <<"api_error">>)]
    ELSE IF q.refresh = "error"
    THEN [NoNodeResp EXCEPT !.kind = "errors",
                            !.errors = Put(EmptyMap, "__all__", <<"api_error">>),
                            !.submitted = <<op>>, !.refreshed = 1]
    ELSE [NoNodeResp EXCEPT !.kind = "job", !.submitted = <<op>>,
                            !.refreshed = 1, !.logged = TRUE]

\* a form's field: value or error list under the field's name
NodeChoiceField(st, name, raw, choices, required) ==
    IF raw = ""
    THEN IF required
         THEN [st EXCEPT !.errors = Put(@, name, <<"required">>)]
         ELSE [st EXCEPT !.data = Put(@, name, "")]
    ELSE IF raw \in choices
         THEN [st EXCEPT !.data = Put(@, name, raw)]
         ELSE [st EXCEPT !.errors = Put(@, name, <<"invalid_choice">>)]

NoFormState == [data |-> EmptyMap, errors |-> EmptyMap]

\* RoleForm(request.POST) cleaned
RoleForm(q) ==
    LET s1 == NodeChoiceField(NoFormState, "role", q.role, ROLE_CHOICES, TRUE)
    IN  [s1 EXCEPT !.data = Put(@, "force", "off")]

\* MigrateForm(request.POST) cleaned
MigrateForm(q) == NodeChoiceField(NoFormState, "mode", q.mode, MODE_CHOICES, TRUE)

\* mutant: a request choosing nothing let through by clean
EvacuateClean_AcceptNeither(st) ==
    LET iallocator == st.data["iallocator"] = "on"
        node == Get(st.data, "node", None)
    IN  IF iallocator
        THEN [st EXCEPT !.data = Put(@, "node", None)]
        ELSE [st EXCEPT !.data = Put(@, "iallocator_hostname", None)]

\* mutant: automatic allocation together with a node refused by clean
EvacuateClean_RefuseBoth(st) ==
    LET iallocator == st.data["iallocator"] = "on"
        node == Get(st.data, "node", None)
    IN  IF iallocator /\ node # None /\ node # ""
        THEN [st EXCEPT !.errors = Put(@, "__all__", <<"must_choose">>)]
        ELSE IF iallocator
        THEN [st EXCEPT !.data = Put(@, "node", None)]
        ELSE IF node # None /\ node # ""
        THEN [st EXCEPT !.data = Put(@, "iallocator_hostname", None)]
        ELSE [st EXCEPT !.errors = Put(@, "__all__", <<"must_choose">>)]

\* EvacuateForm.clean on the cleaned fields
EvacuateClean(st) ==
    LET iallocator == st.data["iallocator"] = "on"
        node == Get(st.data, "node", None)
    IN  IF iallocator
        THEN [st EXCEPT !.data = Put(@, "node", None)]
        ELSE IF node # None /\ node # ""
        THEN [st EXCEPT !.data = Put(@, "iallocator_hostname", None)]
        ELSE [st EXCEPT !.errors = Put(@, "__all__", <<"must_choose">>)]

\* mutant: the node choices not excluding the node being evacuated
EvacuateForm_AnyNode(q) ==
    LET s1 == [NoFormState EXCEPT
                  !.data = Put(Put(@, "iallocator",
                                   IF q.iallocator THEN "on" ELSE "off"),
                               "iallocator_hostname", q.iallocator_hostname)]
        s2 == NodeChoiceField(s1, "node", q.node, ClusterNodes, FALSE)
    IN  EvacuateClean(s2)

\* EvacuateForm(cluster, node, request.POST) cleaned: the fields, then clean
EvacuateForm(q) ==
    LET s1 == [NoFormState EXCEPT
                  !.data = Put(Put(@, "iallocator",
                                   IF q.iallocator THEN "on" ELSE "off"),
                               "iallocator_hostname", q.iallocator_hostname)]
        s2 == NodeChoiceField(s1, "node", q.node, OtherNodes, FALSE)
    IN  EvacuateClean(s2)

\* def role(request, cluster_slug, host)
RoleView(q) ==
    IF ~NodePermitted(q) THEN Render403
    ELSE IF q.method = "POST"
    THEN LET form == RoleForm(q)
         IN  IF DOMAIN form.errors = {}
             THEN SubmitAndRefresh(q, [op |-> "set_role", a |-> form.data["role"],
                                       b |-> None])
             ELSE FormErrors(form.errors)
    ELSE RenderPage

\* mutant: migrate without the permission check
MigrateView_Unchecked(q) ==
    IF q.method = "POST"
    THEN LET form == MigrateForm(q)
         IN  IF DOMAIN form.errors = {}
             THEN SubmitAndRefresh(q, [op |-> "migrate", a |-> form.data["mode"],
                                       b |-> None])
             ELSE FormErrors(form.errors)
    ELSE RenderPage

\* def migrate(request, cluster_slug, host)
MigrateView(q) ==
    IF ~NodePermitted(q) THEN Render403
    ELSE IF q.method = "POST"
    THEN LET form == MigrateForm(q)
         IN  IF DOMAIN form.errors = {}
             THEN SubmitAndRefresh(q, [op |-> "migrate", a |-> form.data["mode"],
                                       b |-> None])
             ELSE FormErrors(form.errors)
    ELSE RenderPage

\* def evacuate(request, cluster_slug, host)
EvacuateView(q) ==
    IF ~NodePermitted(q) THEN Render403
    ELSE IF q.method = "POST"
    THEN LET form == EvacuateForm(q)
         IN  IF DOMAIN form.errors = {}
             THEN SubmitAndRefresh(q, [op |-> "evacuate",
                                       a |-> form.data["iallocator_hostname"],
                                       b |-> form.data["node"]])
             ELSE FormErrors(form.errors)
    ELSE RenderPage

\* what a node request may carry
NodeRequests(view) ==
    [view : {view}, method : {"GET", "POST"}, superuser : BOOLEAN,
     perms : SUBSET {"admin", "migrate"},
     role : IF view = "role" THEN {"", "master"} \cup ROLE_CHOICES ELSE {""},
     mode : IF view = "migrate" THEN {"", "warm"} \cup MODE_CHOICES ELSE {""},
     iallocator : IF view = "evacuate" THEN BOOLEAN ELSE {FALSE},
     iallocator_hostname : IF view = "evacuate" THEN {"", "hail"} ELSE {""},
     node : IF view = "evacuate" THEN {""} \cup ClusterNodes ELSE {""},
     submit : {"ok", "error"}, refresh : {"ok", "error"}]

role ==
    /\ nreq.view = "none"
    /\ \E q \in NodeRequests("role") :
          /\ nreq' = q
          /\ nresp' = RoleView(q)
    /\ UNCHANGED <<formVars, quotaVars>>

migrate ==
    /\ nreq.view = "none"
    /\ \E q \in NodeRequests("migrate") :
          /\ nreq' = q
          /\ nresp' = MigrateView(q)
    /\ UNCHANGED <<formVars, quotaVars>>

evacuate ==
    /\ nreq.view = "none"
    /\ \E q \in NodeRequests("evacuate") :
          /\ nreq' = q
          /\ nresp' = EvacuateView(q)
    /\ UNCHANGED <<formVars, quotaVars>>


(***************************************************************************)
(* Modification: ModifyVirtualMachineForm, ModifyConfirmForm and           *)
(* check_quota_modify.                                                     *)
(***************************************************************************)
\* mutant: the modification check made on the absolute new values
check_quota_modify_Absolute(s, q, u, v) ==
    LET start == s.data["start"]
        ramOver == start /\ ~q.ram.isNone /\ u.ram + s.data["memory"] > q.ram.v
        s1 == IF ramOver
              THEN [s EXCEPT !.data = Del(@, "memory"),
                             !.errors = Put(@, "ram", "quota_ram")]
              ELSE s
        cpuOver == start /\ ~q.virtual_cpus.isNone
                   /\ u.virtual_cpus + s1.data["vcpus"].v > q.virtual_cpus.v
    IN  IF cpuOver
        THEN [s1 EXCEPT !.data = Del(@, "vcpus"),
                        !.errors = Put(@, "vcpus", "quota_vcpus")]
        ELSE s1

\* def check_quota_modify(form), form.owner not None; s = [data, errors],
\* q = cluster.get_quota(owner), u = owner.used_resources(...), v = form.vm
check_quota_modify(s, q, u, v) ==
    LET start == s.data["start"]
        ramOver == start /\ ~q.ram.isNone
                   /\ u.ram + s.data["memory"] - v.ram > q.ram.v
        s1 == IF ramOver
              THEN [s EXCEPT !.data = Del(@, "memory"),
                             !.errors = Put(@, "ram", "quota_ram")]
              ELSE s
        diskOver == Has(s1.data, "disk_size")
                    /\ ~q.disk.isNone /\ q.disk.v # 0
                    /\ u.disk + s1.data["disk_size"] > q.disk.v
        s2 == IF diskOver
              THEN [s1 EXCEPT !.data = Del(@, "disk_size"),
                              !.errors = Put(@, "disk_size", "quota_disk")]
              ELSE s1
        cpuOver == start /\ ~q.virtual_cpus.isNone
                   /\ u.virtual_cpus + s2.data["vcpus"].v - v.virtual_cpus
                      > q.virtual_cpus.v
    IN  IF cpuOver
        THEN [s2 EXCEPT !.data = Del(@, "vcpus"),
                        !.errors = Put(@, "vcpus", "quota_vcpus")]
        ELSE s2

\* the fields ModifyVirtualMachineForm keeps that carry resources: memory and
\* vcpus, both made required by __init__
ModifyFields(m) ==
    LET mem == memory_field(m.memory)
        s1 == IF mem.ok
              THEN [data |-> Put(EmptyMap, "memory", mem.v), errors |-> EmptyMap]
              ELSE [data |-> EmptyMap, errors |-> Put(EmptyMap, "memory", mem.msg)]
    IN  IF m.vcpus = ""
        THEN [s1 EXCEPT !.errors = Put(@, "vcpus", "required")]
        ELSE clean_vcpus([s1 EXCEPT !.data =
                              Put(@, "vcpus", SomeInt(Numerals[m.vcpus]))])

\* ModifyVirtualMachineForm.clean; m.start is "'reboot' in self.data"
ModifyClean(m, s, q, u, v) ==
    LET kernel_path == Get(s.data, "kernel_path", "")
        initrd_path == Get(s.data, "initrd_path", "")
        s1 == IF initrd_path # "" /\ kernel_path = ""
              THEN [s EXCEPT !.errors = Put(Put(@, "kernel_path", "kernel_required"),
                                            "initrd_path", "kernel_required"),
                             !.data = Del(@, "initrd_path")]
              ELSE s
        vnc_tls == Get(s1.data, "vnc_tls", FALSE)
        vnc_x509_path == Get(s1.data, "vnc_x509_path", "")
        vnc_x509_verify == Get(s1.data, "vnc_x509_verify", FALSE)
        s2 == IF ~vnc_tls /\ vnc_x509_path # ""
              THEN [s1 EXCEPT !.errors = Put(@, "vnc_x509_path", "needs_tls")]
              ELSE s1
        s3 == IF vnc_x509_verify /\ vnc_x509_path = ""
              THEN [s2 EXCEPT !.errors = Put(@, "vnc_x509_path", "required")]
              ELSE s2
        s4 == [s3 EXCEPT !.data = Put(@, "start", m.start \/ v.is_running)]
        s5 == check_quota_modify(s4, q, u, v)
    IN  [s5 EXCEPT !.data = Del(@, "start")]

\* ModifyConfirmForm.clean: memory and vcpus come back from rapi_dict
ModifyConfirmClean(m, q, u, v) ==
    LET cleaned == [data |-> Put(Put(Put(EmptyMap,
                                "memory", Numerals[m.memory]),
                                "vcpus", SomeInt(Numerals[m.vcpus])),
                                "start", m.start \/ v.is_running),
                    errors |-> EmptyMap]
    IN  check_quota_modify(cleaned, q, u, v)

(***************************************************************************)
(* SpecQuota: requests of one owner on one cluster run concurrently.  Each *)
(* is validated against the used resources read at that moment; what it   *)
(* asked for is written to the repository by a later step.                 *)
(***************************************************************************)
\* number of requests in flight
NumRequests == 2
Requests == 1..NumRequests

NoQReq == [kind |-> "none", start |-> FALSE, memory |-> "", vcpus |-> ""]
QReqs == [kind : {"create", "modify"}, start : BOOLEAN,
          memory : {"1000", "2000"}, vcpus : {"1", "2"}]

BaseVm == [ram |-> 512, virtual_cpus |-> 1, is_running |-> TRUE]
BaseQuota == [ram |-> Limit(4096), disk |-> Limit(10000), virtual_cpus |-> Limit(4)]

QuotaIdle ==
    /\ used = FormUsed
    /\ vm = BaseVm
    /\ quota = BaseQuota
    /\ qpc = [r \in Requests |-> "idle"]
    /\ qreq = [r \in Requests |-> NoQReq]
    /\ qsnap = [r \in Requests |-> <<>>]
    /\ qerr = [r \in Requests |-> <<>>]

\* the creation request posted: the baseline request with its own resources,
\* met by the cluster's quota
CreateReq(m) ==
    [BaseReq EXCEPT !.memory = m.memory, !.vcpus = m.vcpus, !.start = m.start,
                    !.quotaRam = quota.ram, !.quotaDisk = quota.disk,
                    !.quotaVcpus = quota.virtual_cpus]

Snapshot == [used |-> used, vm |-> vm]

\* requests are numbered in their order of arrival
Arrives(r) == qpc[r] = "idle" /\ \A p \in Requests : p < r => qpc[p] # "idle"

\* a creation request arrives and NewVirtualMachineForm validates it
ValidateCreate(r) ==
    /\ Arrives(r)
    /\ \E m \in QReqs :
          /\ m.kind = "create"
          /\ qreq' = [qreq EXCEPT ![r] = m]
          /\ LET s == full_clean(CreateReq(m), used)
             IN  /\ qerr' = [qerr EXCEPT ![r] = <<s.errors>>]
                 /\ qpc' = [qpc EXCEPT ![r] =
                              IF DOMAIN s.errors = {} THEN "valid" ELSE "rejected"]
    /\ qsnap' = [qsnap EXCEPT ![r] = <<Snapshot>>]
    /\ UNCHANGED <<used, vm, quota, formVars, nodeVars>>

\* a modification request arrives and ModifyVirtualMachineForm validates it
ValidateModify(r) ==
    /\ Arrives(r)
    /\ \E m \in QReqs :
          /\ m.kind = "modify"
          /\ qreq' = [qreq EXCEPT ![r] = m]
          /\ LET s == ModifyClean(m, ModifyFields(m), quota, used, vm)
             IN  /\ qerr' = [qerr EXCEPT ![r] = <<s.errors>>]
                 /\ qpc' = [qpc EXCEPT ![r] =
                              IF DOMAIN s.errors = {} THEN "confirming" ELSE "rejected"]
    /\ qsnap' = [qsnap EXCEPT ![r] = <<Snapshot>>]
    /\ UNCHANGED <<used, vm, quota, formVars, nodeVars>>

\* the user confirms the modification and ModifyConfirmForm validates it
ConfirmModify(r) ==
    /\ qpc[r] = "confirming"
    /\ LET s == ModifyConfirmClean(qreq[r], quota, used, vm)
       IN  /\ qerr' = [qerr EXCEPT ![r] = Append(@, s.errors)]
           /\ qpc' = [qpc EXCEPT ![r] =
                        IF DOMAIN s.errors = {} THEN "valid" ELSE "rejected"]
    /\ qsnap' = [qsnap EXCEPT ![r] = Append(@, Snapshot)]
    /\ UNCHANGED <<used, vm, quota, qreq, formVars, nodeVars>>

\* the accepted creation is carried out: the new machine counts against the
\* owner (ram and virtual cpus once it runs, disk always)
CommitCreate(r) ==
    /\ qpc[r] = "valid"
    /\ qreq[r].kind = "create"
    /\ LET m == qreq[r]
       IN  used' = [ram |-> used.ram + (IF m.start THEN Numerals[m.memory] ELSE 0),
                    disk |-> used.disk + Numerals[BaseReq.disk_size],
                    virtual_cpus |-> used.virtual_cpus
                                     + (IF m.start THEN Numerals[m.vcpus] ELSE 0)]
    /\ qpc' = [qpc EXCEPT ![r] = "done"]
    /\ UNCHANGED <<vm, quota, qreq, qsnap, qerr, formVars, nodeVars>>

\* the confirmed modification is carried out: the machine takes its new
\* size, and runs if it ran or is rebooted
CommitModify(r) ==
    /\ qpc[r] = "valid"
    /\ qreq[r].kind = "modify"
    /\ LET m == qreq[r]
           runs == m.start \/ vm.is_running
           oldRam == IF vm.is_running THEN vm.ram ELSE 0
           oldCpu == IF vm.is_running THEN vm.virtual_cpus ELSE 0
       IN  /\ vm' = [ram |-> Numerals[m.memory],
                     virtual_cpus |-> Numerals[m.vcpus],
                     is_running |-> runs]
           /\ used' = [used EXCEPT
                         !.ram = @ - oldRam + (IF runs THEN Numerals[m.memory] ELSE 0),
                         !.virtual_cpus = @ - oldCpu
                                          + (IF runs THEN Numerals[m.vcpus] ELSE 0)]
    /\ qpc' = [qpc EXCEPT ![r] = "done"]
    /\ UNCHANGED <<quota, qreq, qsnap, qerr, formVars, nodeVars>>

InitQuota ==
    /\ FormIdle /\ NodeIdle
    /\ vm \in {BaseVm, [BaseVm EXCEPT !.is_running = FALSE]}
    /\ used = IF vm.is_running THEN FormUsed
              ELSE [FormUsed EXCEPT !.ram = @ - vm.ram,
                                    !.virtual_cpus = @ - vm.virtual_cpus]
    /\ quota \in {BaseQuota, [BaseQuota EXCEPT !.ram = NoLimit,
                                             !.virtual_cpus = NoLimit]}
    /\ qpc = [r \in Requests |-> "idle"]
    /\ qreq = [r \in Requests |-> NoQReq]
    /\ qsnap = [r \in Requests |-> <<>>]
    /\ qerr = [r \in Requests |-> <<>>]

NextQuota ==
    \E r \in Requests :
        \/ ValidateCreate(r)
        \/ ValidateModify(r)
        \/ ConfirmModify(r)
        \/ CommitCreate(r)
        \/ CommitModify(r)

SpecQuota == InitQuota /\ [][NextQuota]_vars

(***************************************************************************)
(* SpecForm: a creation request is filled in, then validated once.         *)
(***************************************************************************)
InitForm == FormIdle /\ NodeIdle /\ QuotaIdle

\* the user (or the repository) moves one cell of the request away from
\* its baseline value
SetCell ==
    /\ fpc = "editing"
    /\ Deviations(req) < MaxDeviations
    /\ \E c \in ReqCells : \E v \in ReqDomain[c] :
          /\ req[c] = BaseReq[c]
          /\ v # req[c]
          /\ req' = [req EXCEPT ![c] = v]
    /\ UNCHANGED <<fpc, data, errors, ran, nodeVars, quotaVars>>

\* the view builds NewVirtualMachineForm(user, request.POST) and validates it
Validate ==
    /\ fpc = "editing"
    /\ LET s == full_clean(req, FormUsed)
       IN  /\ data' = s.data
           /\ errors' = s.errors
           /\ ran' = s.ran
    /\ fpc' = "done"
    /\ UNCHANGED <<req, nodeVars, quotaVars>>

NextForm == SetCell \/ Validate

SpecForm == InitForm /\ [][NextForm]_vars

(***************************************************************************)
(* SpecNode: one request at one of the node views.                         *)
(***************************************************************************)
InitNode == FormIdle /\ NodeIdle /\ QuotaIdle

NextNode == role \/ migrate \/ evacuate

SpecNode == InitNode /\ [][NextNode]_vars

(***************************************************************************)
(* Claims about creation validation (SpecForm).                            *)
(***************************************************************************)
Validated == fpc = "done"

\* the raw memory / disk size of the request as numbers, when numerals
ReqMemory == IF req.memory \in DOMAIN Numerals THEN Numerals[req.memory] ELSE 0

\* C1 (as claimed): a non-superuser request with start flagged and a set ram
\* quota whose used ram + requested memory exceeds the limit gets an error on
\* the field named memory, and memory is removed from the accepted data
C1_MemoryFieldError ==
    (Validated /\ ~req.superuser /\ req.start /\ ~req.quotaRam.isNone
       /\ req.memory \in DOMAIN Numerals
       /\ FormUsed.ram + ReqMemory > req.quotaRam.v)
    => (Has(errors, "memory") /\ ~Has(data, "memory"))

\* the existing virtual machine is the one the request names, and the
\* cluster passed its field, so clean_hostname looks the machine up
NamesExistingVm == req.hostname = ExistingVmHost /\ Has(data, "cluster")

\* C3 (as claimed): an existing machine with pending_delete = false and
\* template = None owned by the requesting owner makes the request a recovery
C3_RecoveryTemplateNone ==
    (Validated /\ NamesExistingVm /\ ~req.vmPending /\ ~req.vmTemplate
       /\ req.vmOwner = SelfOwner(req))
    => (~Has(errors, "hostname") /\ Has(data, "vm_recovery"))

\* C3 (amended): the recovery is taken when the existing machine still has
\* its template (template is not None), is not pending deletion and is owned
\* by the requesting owner: the hostname is accepted and vm_recovery is set
C3_RecoveryTemplateKept ==
    (Validated /\ NamesExistingVm /\ ~req.vmPending /\ req.vmTemplate
       /\ req.vmOwner = SelfOwner(req))
    => (~Has(errors, "hostname") /\ Has(data, "hostname")
        /\ Has(data, "vm_recovery"))

C3_Witness ==
    Validated /\ NamesExistingVm /\ ~req.vmPending /\ req.vmTemplate
    /\ req.vmOwner = SelfOwner(req) /\ Has(data, "vm_recovery")

KvmBadDiskType ==
    req.hypervisor = "kvm" /\ req.disk_type \notin (KVM_DISK_TYPES \cup HV_DISK_TYPES)

\* C6 (as claimed): every kvm request with a disk_type outside
\* KVM_DISK_TYPES and HV_DISK_TYPES has an error on disk_type
C6_DiskTypeAlways ==
    (Validated /\ KvmBadDiskType) => Has(errors, "disk_type")

\* C6 (amended): such a request has an error on disk_type unless clean
\* exited early on an error of field cleaning or of the cross-field checks,
\* and then the error map is not empty
C6_DiskTypeUnlessEarlyExit ==
    (Validated /\ KvmBadDiskType)
    => \/ Has(errors, "disk_type")
       \/ ("capability" \notin ran /\ DOMAIN errors # {})

C6_Witness ==
    Validated /\ KvmBadDiskType /\ "capability" \in ran
    /\ Has(errors, "disk_type") /\ errors["disk_type"] = "bad_disk_type"

\* C7: drbd without automatic allocation and pnode = snode, non-empty, gives
\* an error on pnode and neither pnode nor snode in the accepted data
C7_NodesMatch ==
    (Validated /\ req.disk_template = "drbd" /\ ~req.iallocator
       /\ req.pnode = req.snode /\ req.pnode # "")
    => (Has(errors, "pnode") /\ ~Has(data, "pnode") /\ ~Has(data, "snode"))

C7_Witness ==
    Validated /\ req.disk_template = "drbd" /\ ~req.iallocator
    /\ req.pnode = req.snode /\ req.pnode \in NodeChoices(req)
    /\ Has(errors, "pnode") /\ errors["pnode"] = "nodes_match"

\* C8: a template other than diskless with a disk_size that is absent, zero
\* or negative gives an error on disk_size
C8_DiskSizeRequired ==
    (Validated /\ req.disk_template # "diskless"
       /\ (req.disk_size = "" \/ Numerals[req.disk_size] <= 0))
    => Has(errors, "disk_size")

C8_Witness ==
    Validated /\ req.disk_template # "diskless" /\ req.disk_size = "-5"
    /\ Has(errors, "disk_size") /\ errors["disk_size"] = "disk_size_unset"

\* C10 (as claimed): an empty error map means every field of the form is
\* in the accepted data
C10_NoPartialSuccess ==
    (Validated /\ DOMAIN errors = {}) => FormFields(req) \subseteq DOMAIN data

\* C10 (amended): with an empty error map every field of the form other
\* than pnode and snode is in the accepted data; pnode is missing only under
\* automatic allocation with an allocator hostname, snode only then or when
\* the request is not a drbd request with manual placement
C10_OnlyNodesDropped ==
    (Validated /\ DOMAIN errors = {})
    => /\ (FormFields(req) \ {"pnode", "snode"}) \subseteq DOMAIN data
       /\ ~Has(data, "pnode")
            => (req.iallocator /\ req.iallocator_hostname # "")
       /\ ~Has(data, "snode")
            => \/ (req.iallocator /\ req.iallocator_hostname # "")
               \/ ~(req.disk_template = "drbd" /\ ~req.iallocator)

C10_Witness ==
    Validated /\ DOMAIN errors = {} /\ ~Has(data, "pnode")
    /\ Has(data, "memory") /\ Has(data, "disk_size")

(***************************************************************************)
(* Claims about concurrent requests (SpecQuota).                           *)
(***************************************************************************)
\* the owner's committed resources are within every set limit
WithinQuota ==
    /\ ~quota.ram.isNone => used.ram <= quota.ram.v
    /\ ~quota.disk.isNone => used.disk <= quota.disk.v
    /\ ~quota.virtual_cpus.isNone => used.virtual_cpus <= quota.virtual_cpus.v

\* C2 (as claimed), for creation requests: whatever the interleaving of the
\* concurrent requests of the owner, the committed resources never exceed a
\* set limit
C2_NeverOverCommit ==
    (\A r \in Requests : qreq[r].kind # "modify") => WithinQuota

\* the runs of the quota check made so far: <<request, run>>
CheckRuns == {<<r, i>> : r \in Requests, i \in 1..2} \cap
             {x \in Requests \X (1..2) : x[2] <= Len(qerr[x[1]])}

EvacuateBoth ==
    nreq.view = "evacuate" /\ nreq.method = "POST" /\ NodePermitted(nreq)
    /\ nreq.iallocator /\ nreq.node # ""

\* C4 (as claimed): automatic allocation together with an explicit node is
\* rejected with exactly one top-level error and no job is submitted
C4_BothRejectedOnce ==
    EvacuateBoth
    => /\ nresp.kind = "errors"
       /\ DOMAIN nresp.errors = {"__all__"}
       /\ Len(nresp.errors["__all__"]) = 1
       /\ nresp.submitted = <<>>

\* C4 (amended): automatic allocation together with an explicit node that
\* is one of the cluster's other nodes passes validation: the node is
\* cleared and the evacuate job is sent with the allocator hostname and no
\* node; a node that is no valid choice gives one error on the node field,
\* no top-level error and no job
C4_AllocationWins ==
    EvacuateBoth
    => IF nreq.node \in OtherNodes
       THEN IF nreq.submit = "ok"
            THEN nresp.submitted = <<[op |-> "evacuate",
                                      a |-> nreq.iallocator_hostname, b |-> None]>>
            ELSE nresp.submitted = <<>> /\ nresp.errors["__all__"] = <<"api_error">>
       ELSE /\ nresp.kind = "errors"
            /\ DOMAIN nresp.errors = {"node"}
            /\ nresp.submitted = <<>>

C4_Witness ==
    EvacuateBoth /\ nreq.node \in OtherNodes /\ nresp.kind = "job"
    /\ Len(nresp.submitted) = 1 /\ nresp.submitted[1].b = None

RoleByMigrateOnly ==
    nreq.view = "role" /\ nreq.method = "POST" /\ ~nreq.superuser
    /\ nreq.perms = {"migrate"}

\* C5 (as claimed): a role change posted by a user holding only migrate is
\* rejected for authorization and no job is submitted
C5_MigrateOnlyRejected ==
    RoleByMigrateOnly => (nresp.kind = "403" /\ nresp.submitted = <<>>)

\* C5 (amended): a role change posted by a user holding only migrate is not
\* rejected for authorization; with a role among the choices the role-change
\* job is sent to the job service
C5_MigrateOnlyAuthorized ==
    RoleByMigrateOnly
    => /\ nresp.kind # "403"
       /\ (nreq.role \in ROLE_CHOICES /\ nreq.submit = "ok")
            => nresp.submitted = <<[op |-> "set_role", a |-> nreq.role, b |-> None]>>

C5_Witness ==
    RoleByMigrateOnly /\ nreq.role = "drained" /\ nresp.kind = "job"
    /\ Len(nresp.submitted) = 1

(***************************************************************************)
(* Claims about owner, permissions, quota and the order of clean           *)
(* (SpecForm).                                                             *)
(***************************************************************************)
\* the acting user may act for the owner, and the owner may create here
ActsForOwner ==
    /\ req.owner \in ClusterUsers
    /\ IF IsOrganization(req.owner) THEN UserIsMember(req.owner)
       ELSE OwnerIsUser(req.owner)
Authorized == req.superuser \/ (ActsForOwner /\ req.perm \in {"create_vm", "admin"})

ReqDisk == IF req.disk_size \in DOMAIN Numerals THEN Numerals[req.disk_size] ELSE 0
ReqVcpus == IF req.vcpus \in DOMAIN Numerals THEN Numerals[req.vcpus] ELSE 0

\* C12 (as claimed): when the creation quota check runs, every resource
\* with a set limit (0 included) reports a violation exactly when used +
\* requested exceeds the limit, ram and virtual cpus only with start, disk
\* whatever start is; an unset limit reports nothing
C12_EverySetLimitChecked ==
    (Validated /\ "quota" \in ran)
    => /\ Has(errors, "ram")
            <=> (req.start /\ ~req.quotaRam.isNone
                 /\ FormUsed.ram + ReqMemory > req.quotaRam.v)
       /\ Has(errors, "disk_size")
            <=> (~req.quotaDisk.isNone /\ FormUsed.disk + ReqDisk > req.quotaDisk.v)
       /\ Has(errors, "vcpus")
            <=> (req.start /\ ~req.quotaVcpus.isNone
                 /\ FormUsed.virtual_cpus + ReqVcpus > req.quotaVcpus.v)

\* the request's disk_type, nic_type or boot_order is not legal for its
\* hypervisor
HvIllegal ==
    \/ /\ req.hypervisor = "kvm"
       /\ \/ req.disk_type \notin (KVM_DISK_TYPES \cup HV_DISK_TYPES)
          \/ req.nic_type \notin (KVM_NIC_TYPES \cup HV_NIC_TYPES)
          \/ req.boot_order \notin KVM_BOOT_ORDER
    \/ /\ req.hypervisor = "xen-hvm"
       /\ \/ req.disk_type \notin (HVM_DISK_TYPES \cup HV_DISK_TYPES)
          \/ req.nic_type \notin HV_NIC_TYPES
          \/ req.boot_order \notin HVM_BOOT_ORDER

CapabilityKeys == {"disk_type", "nic_type", "boot_order"}

\* C19 (as claimed): a request whose disk_type, nic_type or boot_order is
\* illegal for its hypervisor never has the permission or quota checks run
C19_CapabilityBeforeAuth ==
    (Validated /\ HvIllegal) => ("auth" \notin ran /\ "quota" \notin ran)

\* C19 (amended): the order is field checks, cross-field checks, then
\* authorization and quota, then the capability checks: authorization and
\* quota run only when no field or cross-field error was recorded, the
\* capability checks run after them whatever they reported, and so a
\* non-superuser request that gets a capability error has had its
\* permission and quota checks run
C19_AuthBeforeCapability ==
    Validated
    => /\ ("auth" \in ran \/ "quota" \in ran)
            => /\ "capability" \in ran
               /\ DOMAIN errors \subseteq
                     ({"owner", "ram", "disk_size", "vcpus"} \cup CapabilityKeys)
       /\ ("capability" \in ran /\ ~req.superuser)
            => ("auth" \in ran /\ "quota" \in ran)
       /\ ("capability" \in ran /\ HvIllegal)
            => (DOMAIN errors \cap CapabilityKeys) # {}

C19_Witness ==
    Validated /\ HvIllegal /\ "auth" \in ran /\ "quota" \in ran
    /\ Has(errors, "disk_type") /\ Has(errors, "owner")

\* field cleaning recorded an error for the node field
PnodeRejected == req.pnode \notin NodeChoices(req)
SnodeRejected == req.snode \notin NodeChoices(req)

\* C20 (as claimed): with automatic allocation and an allocator hostname
\* the error map has no pnode or snode entry; with automatic allocation and
\* no allocator hostname there is an error on iallocator and the earlier
\* pnode and snode errors are kept
C20_NodeErrorsKept ==
    (Validated /\ req.iallocator)
    => IF req.iallocator_hostname # ""
       THEN ~Has(errors, "pnode") /\ ~Has(errors, "snode")
       ELSE /\ Has(errors, "iallocator")
            /\ PnodeRejected => Has(errors, "pnode")
            /\ SnodeRejected => Has(errors, "snode")

\* C20 (amended): with automatic allocation and an allocator hostname the
\* error map has no pnode or snode entry; with automatic allocation and no
\* allocator hostname there is an error on iallocator, the earlier pnode
\* error is kept and the snode error is removed all the same
C20_PnodeErrorKept ==
    (Validated /\ req.iallocator)
    => IF req.iallocator_hostname # ""
       THEN ~Has(errors, "pnode") /\ ~Has(errors, "snode")
       ELSE /\ Has(errors, "iallocator")
            /\ PnodeRejected => Has(errors, "pnode")
            /\ ~Has(errors, "snode")

C20_Witness ==
    Validated /\ req.iallocator /\ req.iallocator_hostname = "hail"
    /\ PnodeRejected /\ SnodeRejected
    /\ ~Has(errors, "pnode") /\ ~Has(errors, "snode")

(***************************************************************************)
(* Claims about the modification quota check (SpecQuota).                  *)
(***************************************************************************)
\* the runs of check_quota_modify made so far
ModifyRuns == {x \in CheckRuns : qreq[x[1]].kind = "modify"}
RunSnap(x) == qsnap[x[1]][x[2]]
RunErrors(x) == DOMAIN qerr[x[1]][x[2]]
RunMemory(x) == Numerals[qreq[x[1]].memory]
RunVcpus(x) == Numerals[qreq[x[1]].vcpus]
\* 'reboot' in the posted data, or the machine runs
RunStart(x) == qreq[x[1]].start \/ RunSnap(x).vm.is_running
RamDeltaOver(x) ==
    ~quota.ram.isNone
    /\ RunSnap(x).used.ram + RunMemory(x) - RunSnap(x).vm.ram > quota.ram.v
VcpusDeltaOver(x) ==
    ~quota.virtual_cpus.isNone
    /\ RunSnap(x).used.virtual_cpus + RunVcpus(x) - RunSnap(x).vm.virtual_cpus
         > quota.virtual_cpus.v

\* C13 (as claimed): every run of the modification check reports a
\* violation on a resource with a set limit exactly when used + requested -
\* the machine's current amount exceeds the limit
C13_DeltaAlways ==
    \A x \in ModifyRuns :
        /\ "ram" \in RunErrors(x) <=> RamDeltaOver(x)
        /\ "vcpus" \in RunErrors(x) <=> VcpusDeltaOver(x)

\* C13 (amended): the modification check looks at ram and virtual cpus only
\* when the machine runs or is rebooted; then it reports a violation exactly
\* when used + requested - the machine's current amount exceeds the set
\* limit, and otherwise reports none.  Posting a running machine's current
\* memory and vcpus with the owner within quota reports nothing
C13_DeltaWhenStarted ==
    \A x \in ModifyRuns :
        /\ "ram" \in RunErrors(x) <=> (RunStart(x) /\ RamDeltaOver(x))
        /\ "vcpus" \in RunErrors(x) <=> (RunStart(x) /\ VcpusDeltaOver(x))
        /\ ( /\ RunSnap(x).vm.is_running
             /\ RunMemory(x) = RunSnap(x).vm.ram
             /\ RunVcpus(x) = RunSnap(x).vm.virtual_cpus
             /\ ~quota.ram.isNone => RunSnap(x).used.ram <= quota.ram.v
             /\ ~quota.virtual_cpus.isNone
                  => RunSnap(x).used.virtual_cpus <= quota.virtual_cpus.v )
           => RunErrors(x) = {}

C13_Witness ==
    \E x \in ModifyRuns :
        /\ RunSnap(x).vm.is_running
        /\ RunMemory(x) = RunSnap(x).vm.ram
        /\ RunVcpus(x) = RunSnap(x).vm.virtual_cpus
        /\ ~quota.ram.isNone
        /\ RunSnap(x).used.ram <= quota.ram.v
        /\ RunSnap(x).used.ram + RunMemory(x) > quota.ram.v
        /\ RunErrors(x) = {}

(***************************************************************************)
(* Claims about the job service in the node views (SpecNode).              *)
(***************************************************************************)
NodePost == nreq.view \in {"role", "migrate", "evacuate"} /\ nreq.method = "POST"

\* the posted values pass the view's form
NodeFormValid ==
    CASE nreq.view = "role" -> nreq.role \in ROLE_CHOICES
      [] nreq.view = "migrate" -> nreq.mode \in MODE_CHOICES
      [] nreq.view = "evacuate" ->
            /\ nreq.node \in OtherNodes \cup {""}
            /\ nreq.iallocator \/ nreq.node # ""
      [] OTHER -> FALSE

\* C14: a job is submitted only by a POST of a permitted caller (superuser,
\* admin or migrate) whose form validated; a request failing the permission
\* check ends in 403, one failing the form in the form's errors, both with
\* no job submitted
C14_SubmitOnlyAfterChecks ==
    /\ nresp.submitted # <<>> => (NodePost /\ NodePermitted(nreq) /\ NodeFormValid)
    /\ (nreq.view # "none" /\ ~NodePermitted(nreq))
         => (nresp.kind = "403" /\ nresp.submitted = <<>>)
    /\ (NodePost /\ NodePermitted(nreq) /\ ~NodeFormValid)
         => (nresp.kind = "errors" /\ DOMAIN nresp.errors # {}
             /\ nresp.submitted = <<>>)

C14_Witness ==
    NodePost /\ nreq.view = "migrate" /\ ~nreq.superuser /\ nreq.perms = {"admin"}
    /\ nreq.mode = "live" /\ Len(nresp.submitted) = 1
    /\ nresp.submitted[1].op = "migrate"

ServiceFails == nreq.submit = "error" \/ nreq.refresh = "error"

\* C15: when the job service fails at submit or at the refresh, the
\* response has exactly one error, under __all__, and the job was submitted
\* at most once and refreshed at most once
C15_OneErrorNoRetry ==
    (NodePost /\ NodePermitted(nreq) /\ NodeFormValid /\ ServiceFails)
    => /\ nresp.kind = "errors"
       /\ DOMAIN nresp.errors = {"__all__"}
       /\ Len(nresp.errors["__all__"]) = 1
       /\ Len(nresp.submitted) <= 1
       /\ nresp.refreshed <= 1
       /\ nreq.submit = "error" => nresp.submitted = <<>>

C15_Witness ==
    NodePost /\ NodePermitted(nreq) /\ NodeFormValid /\ nreq.submit = "error"
    /\ nreq.view = "evacuate" /\ nresp.kind = "errors"
    /\ nresp.errors["__all__"] = <<"api_error">> /\ nresp.submitted = <<>>

\* C16 (as claimed): a job submitted whose refresh then fails is not
\* reported as a failure
C16_RefreshFailureNotFailure ==
    (NodePost /\ NodePermitted(nreq) /\ NodeFormValid
       /\ nreq.submit = "ok" /\ nreq.refresh = "error")
    => (nresp.kind # "errors" /\ ~Has(nresp.errors, "__all__"))

\* C17 (as claimed): an evacuate request with automatic allocation and an
\* empty allocator hostname is rejected and no job is submitted
C17_AllocatorHostnameRequired ==
    (NodePost /\ nreq.view = "evacuate" /\ NodePermitted(nreq)
       /\ nreq.iallocator /\ nreq.iallocator_hostname = "")
    => (nresp.kind = "errors" /\ nresp.submitted = <<>>)

\* C18: an evacuate request with neither automatic allocation nor a node
\* fails validation with an error and no job is submitted
C18_NeitherRejected ==
    (NodePost /\ nreq.view = "evacuate" /\ NodePermitted(nreq)
       /\ ~nreq.iallocator /\ nreq.node = "")
    => /\ nresp.kind = "errors"
       /\ Has(nresp.errors, "__all__")
       /\ nresp.submitted = <<>>

C18_Witness ==
    NodePost /\ nreq.view = "evacuate" /\ NodePermitted(nreq)
    /\ ~nreq.iallocator /\ nreq.node = "" /\ nreq.submit = "ok"
    /\ nresp.kind = "errors" /\ nresp.errors["__all__"] = <<"must_choose">>

(***************************************************************************)
(* Claims about the placement an evacuate request ends with (SpecNode).    *)
(***************************************************************************)
\* a permitted evacuate POST whose form validated
EvacuateValidated ==
    NodePost /\ nreq.view = "evacuate" /\ NodePermitted(nreq)
    /\ DOMAIN EvacuateForm(nreq).errors = {}

\* C21: after evacuate validation succeeds, with automatic allocation the
\* node in the accepted data is None (the allocator hostname is the posted
\* one); without it the allocator hostname is None and the node is the
\* posted one, non-empty, a node of the cluster other than the node being
\* evacuated; the job is submitted once, with exactly these two values
C21_OnePlacement ==
    EvacuateValidated
    => LET accepted == EvacuateForm(nreq).data
       IN  /\ IF nreq.iallocator
              THEN /\ accepted["node"] = None
                   /\ accepted["iallocator_hostname"] = nreq.iallocator_hostname
              ELSE /\ accepted["iallocator_hostname"] = None
                   /\ accepted["node"] = nreq.node
                   /\ nreq.node # "" /\ nreq.node # ThisNode
                   /\ nreq.node \in ClusterNodes
           /\ IF nreq.submit = "ok"
              THEN nresp.submitted =
                      <<[op |-> "evacuate", a |-> accepted["iallocator_hostname"],
                         b |-> accepted["node"]]>>
              ELSE nresp.submitted = <<>>

C21_Witness ==
    EvacuateValidated /\ ~nreq.iallocator /\ nreq.node = "n2"
    /\ nreq.iallocator_hostname = "hail"
    /\ nresp.submitted = <<[op |-> "evacuate", a |-> None, b |-> "n2"]>>

====
